---- MODULE Spec2Model ----
(***************************************************************************)
(* A model of the PythonLeanTemplate logging facility (lib/BorgLogger.py)  *)
(* and of the configuration it reads (config.py).                          *)
(*                                                                         *)
(* Python values are records [kind, num, str]: the model keeps Python's    *)
(* dynamic typing where the code depends on it (the truth test on          *)
(* main_logger, the validation of root_level).  Strings are TLA+ strings;  *)
(* \o, Len and SubSeq act on them as Python's +, len and slicing.          *)
(***************************************************************************)
EXTENDS Integers, Sequences, FiniteSets, TLC

VARIABLES
    shared,     \* BorgLogger._shared_state: key -> value
    loggers,    \* every CustomLogger instance created so far, in creation order
    handlers,   \* every logging.Handler instance created so far, in creation order
    frames,     \* per thread: the position inside the call it is executing, and its locals
    ret,        \* per thread: what its last finished call returned or raised
    calls,      \* the calls started so far, in start order
    inp,        \* the caller's inputs: message, context, keyword arguments, exception context
    out,        \* the last logging call and what it produced
    applied     \* the last direct application of process or detailed_exception

vars == <<shared, loggers, handlers, frames, ret, calls, inp, out, applied>>

(***************************************************************************)
(* Bounds of the model.                                                    *)
(***************************************************************************)
NumThreads == 2
MaxCalls == 3
\* the most command-line arguments after the program's name
MaxArgs == 3

Threads == 1..NumThreads

(***************************************************************************)
(* Python values.                                                          *)
(***************************************************************************)
None == [kind |-> "none", num |-> 0, str |-> ""]
IntV(n) == [kind |-> "int", num |-> n, str |-> ""]
StrV(s) == [kind |-> "str", num |-> 0, str |-> s]
\* a reference to the CustomLogger loggers[i]
RefV(i) == [kind |-> "logger", num |-> i, str |-> ""]

\* Python's truth test, as `not x` applies it
Truthy(v) ==
    CASE v.kind = "none" -> FALSE
      [] v.kind = "int" -> v.num # 0
      [] v.kind = "str" -> v.str # ""
      [] OTHER -> TRUE

(***************************************************************************)
(* config.py                                                               *)
(***************************************************************************)
DEBUG == 10
INFO == 20
ERROR == 40
LOGGERNAME == "LeanPython"
LOG_FOLDER == "logs"
\* ROOT_DIR is the folder config.py lies in; a path is the sequence of its parts
ROOT_DIR == <<"/", "proj">>

RECURSIVE JoinParts(_)
JoinParts(parts) ==
    IF Len(parts) = 0 THEN ""
    ELSE IF Len(parts) = 1 THEN parts[1]
    ELSE parts[1] \o "/" \o JoinParts(Tail(parts))

\* str(path) of an absolute POSIX path
PathStr(parts) == "/" \o JoinParts(Tail(parts))

\* LOG_LEVEL: DEBUG when "-d" is among the command-line arguments, else INFO
LOG_LEVEL(dashD) == IF dashD THEN DEBUG ELSE INFO
LOG_PATH == PathStr(ROOT_DIR \o <<LOG_FOLDER>>)
\* LOG_FILE without the --date suffix
LOG_FILE == LOGGERNAME

\* The class attribute _shared_state as the class body builds it
InitialSharedState(dashD) ==
    [ name |-> StrV(LOGGERNAME),
      main_logger |-> None,
      root_level |-> IntV(LOG_LEVEL(dashD)),
      log_file_path |-> StrV(LOG_PATH),
      log_file_name |-> StrV(LOG_FILE \o ".log") ]

(***************************************************************************)
(* logging._checkLevel, which _config_logger calls to validate root_level  *)
(* and which Handler.setLevel and Logger.setLevel call to convert it.      *)
(***************************************************************************)
nameToLevel ==
    [ n \in {"CRITICAL", "FATAL", "ERROR", "WARN", "WARNING", "INFO", "DEBUG", "NOTSET"} |->
        CASE n \in {"CRITICAL", "FATAL"} -> 50
          [] n = "ERROR" -> ERROR
          [] n \in {"WARN", "WARNING"} -> 30
          [] n = "INFO" -> INFO
          [] n = "DEBUG" -> DEBUG
          [] OTHER -> 0 ]

\* _checkLevel without its validation
_checkLevel_Unvalidated(level) ==
    [raised |-> "", rv |-> IF level.kind = "int" THEN level.num ELSE 0]

_checkLevel(level) ==
    IF level.kind = "int" THEN [raised |-> "", rv |-> level.num]
    ELSE IF level.kind = "str" THEN
        IF level.str \in DOMAIN nameToLevel
        THEN [raised |-> "", rv |-> nameToLevel[level.str]]
        ELSE [raised |-> "ValueError", rv |-> 0]
    ELSE [raised |-> "TypeError", rv |-> 0]

(***************************************************************************)
(* lib/BorgLogger.py: the exception formatter.                             *)
(*                                                                         *)
(* An exception context is sys.exc_info(): [active, type, text, tb].  tb   *)
(* is the traceback chain from exc_info[2], the entry of the frame that    *)
(* handles the exception, down to the frame that raised it (tb_next);      *)
(* each entry holds the frame's source file and tb_lineno.  A type is      *)
(* [module, qualname, doc].                                                *)
(***************************************************************************)
NoException == [active |-> FALSE, type |-> [module |-> "", qualname |-> "", doc |-> ""],
                text |-> "", tb |-> <<>>]

\* str(cls) of an exception class
ClassRepr(type) ==
    "<class '" \o (IF type.module = "builtins" THEN type.qualname
                   ELSE type.module \o "." \o type.qualname) \o "'>"

\* the least index >= from at which s holds ch, or 0
RECURSIVE Find(_, _, _)
Find(s, ch, from) ==
    IF from > Len(s) THEN 0
    ELSE IF SubSeq(s, from, from) = ch THEN from
    ELSE Find(s, ch, from + 1)

\* s.split("'", maxsplit=2)[1]
SplitQuoteSecond(s) ==
    LET i == Find(s, "'", 1)
        j == IF i = 0 THEN 0 ELSE Find(s, "'", i + 1)
    IN  IF i = 0 THEN [raised |-> "IndexError", rv |-> ""]
        ELSE [raised |-> "", rv |-> SubSeq(s, i + 1, IF j = 0 THEN Len(s) ELSE j - 1)]

\* f"{x}" of a docstring, which is None for a class without one
DocStr(doc) == IF doc = "" THEN "None" ELSE doc

_customFormatException(exc_info) ==
    LET error == SplitQuoteSecond(ClassRepr(exc_info.type)).rv
    IN  [ line |-> exc_info.tb[1].lineno, error |-> error,
          error_text |-> exc_info.text, description |-> DocStr(exc_info.type.doc) ]

\* whether Path(parts).relative_to(root) returns rather than raising ValueError
IsRelativeTo(parts, root) ==
    /\ Len(root) <= Len(parts)
    /\ SubSeq(parts, 1, Len(root)) = root

detailed_exception(exc_info) ==
    IF ~exc_info.active
    THEN \* exc_info[2] is None: None has no tb_frame
         [raised |-> "AttributeError", rv |-> ""]
    ELSE
    LET \* traceback.extract_stack(exc_info[2].tb_frame, limit=1)[0][0]
        parts == exc_info.tb[1].file
        err_file == IF IsRelativeTo(parts, ROOT_DIR)
                    THEN parts[Len(parts) - 1] \o "/" \o parts[Len(parts)]
                    ELSE PathStr(parts)
        f == _customFormatException(exc_info)
    IN  [ raised |-> "",
          rv |-> "Exception in " \o err_file \o ":" \o ToString(f.line) \o " - " \o f.error
                 \o " - " \o f.error_text \o " - " \o f.description ]

(***************************************************************************)
(* lib/BorgLogger.py: ContextAdapter.process.                              *)
(*                                                                         *)
(* A context (the adapter's `extra`) is [kind, text, items]: kind "none",  *)
(* "str" (text), "dict" (items: the [key, value] pairs in the mapping's    *)
(* order) or "list" (items: the elements, as values).  Keyword arguments   *)
(* are [exc_info, hasExtra, extra]: extra is the key set of the `extra`    *)
(* mapping when one is passed.                                             *)
(***************************************************************************)
NoContext == [kind |-> "none", text |-> "", items |-> <<>>]
StrContext(s) == [kind |-> "str", text |-> s, items |-> <<>>]
DictContext(items) == [kind |-> "dict", text |-> "", items |-> items]
ListContext(items) == [kind |-> "list", text |-> "", items |-> items]

\* str() of the generator object the dict branch builds; addr is the object's address
GeneratorRepr(addr) ==
    "<generator object ContextAdapter.process.<locals>.<genexpr> at 0x" \o addr \o ">"

\* s[:-2]
DropLastTwo(s) == IF Len(s) <= 2 THEN SubSeq(s, 1, 0) ELSE SubSeq(s, 1, Len(s) - 2)

\* process testing `self.extra is not None` in place of the string test
process_AnyContext(extra, msg, kwargs, addr) ==
    IF extra.kind = "dict" THEN
        [msg |-> "[" \o DropLastTwo(GeneratorRepr(addr)) \o "] " \o msg, kwargs |-> kwargs]
    ELSE IF extra.kind # "none" THEN
        [msg |-> "[" \o extra.text \o "] " \o msg, kwargs |-> kwargs]
    ELSE [msg |-> msg, kwargs |-> kwargs]

process(extra, msg, kwargs, addr) ==
    IF extra.kind = "dict" THEN
        LET context_text == DropLastTwo(GeneratorRepr(addr))
        IN  [msg |-> "[" \o context_text \o "] " \o msg, kwargs |-> kwargs]
    ELSE IF extra.kind = "str" THEN
        [msg |-> "[" \o extra.text \o "] " \o msg, kwargs |-> kwargs]
    ELSE [msg |-> msg, kwargs |-> kwargs]

(***************************************************************************)
(* lib/BorgLogger.py: CustomLogger and the logging.Logger and              *)
(* logging.LoggerAdapter methods it and ContextAdapter inherit.            *)
(*                                                                         *)
(* A logger is [name, level, handlers] (handlers: indices into the         *)
(* handler heap hs, in addHandler order); a handler is [kind, level,       *)
(* target].  A logging call yields [raised, records, emits]: the           *)
(* exception it ends with (if any), the LogRecords created, and one entry  *)
(* per handler that emitted.                                               *)
(***************************************************************************)
Nothing == [raised |-> "", records |-> <<>>, emits |-> <<>>]

LevelOf(method) ==
    CASE method = "debug" -> DEBUG
      [] method = "info" -> INFO
      [] method = "warning" -> 30
      [] method \in {"error", "exception"} -> ERROR
      [] OTHER -> 50

\* Logger.getEffectiveLevel: a CustomLogger built directly has no parent
getEffectiveLevel(lg) == lg.level

\* isEnabledFor with the threshold itself shut out
isEnabledFor_Strict(lg, level) == level > lg.level

\* Logger.isEnabledFor, logging.disable never having been called
isEnabledFor(lg, level) == level >= getEffectiveLevel(lg)

\* Logger.callHandlers: every attached handler whose level admits the record emits it
RECURSIVE callHandlers(_, _, _)
callHandlers(hseq, hs, record) ==
    IF hseq = <<>> THEN <<>>
    ELSE (IF record.levelno >= hs[Head(hseq)].level
          THEN << [handler |-> Head(hseq), levelno |-> record.levelno, msg |-> record.msg] >>
          ELSE <<>>) \o callHandlers(Tail(hseq), hs, record)

\* CustomLogger._log, with logging.Logger._log, makeRecord and handle
_log(lg, hs, level, msg, kwargs, exc) ==
    LET flagged == kwargs.hasExtra /\ "is_exception" \in kwargs.extra
        detail == detailed_exception(exc)
        msg2 == IF flagged THEN msg \o " [" \o detail.rv \o "]" ELSE msg
        record == [levelno |-> level, msg |-> msg2, exc_info |-> kwargs.exc_info]
    IN  IF flagged /\ detail.raised # ""
        THEN [raised |-> detail.raised, records |-> <<>>, emits |-> <<>>]
        ELSE [raised |-> "", records |-> <<record>>,
              emits |-> callHandlers(lg.handlers, hs, record)]

\* Logger.debug, info, warning, error, critical and Logger.log
Logger_log(lg, hs, level, msg, kwargs, exc) ==
    IF isEnabledFor(lg, level) THEN _log(lg, hs, level, msg, kwargs, exc) ELSE Nothing

\* the keyword arguments after kwargs["extra"]["is_exception"] = True
FlagException(kwargs) ==
    [kwargs EXCEPT !.hasExtra = TRUE,
                   !.extra = (IF kwargs.hasExtra THEN @ ELSE {}) \cup {"is_exception"}]

CustomLogger_exception(lg, hs, msg, kwargs, exc) ==
    Logger_log(lg, hs, ERROR, msg, FlagException(kwargs), exc)

\* LoggerAdapter.log, which every leveled method of an adapter goes through
LoggerAdapter_log(lg, hs, extra, level, msg, kwargs, exc, addr) ==
    IF isEnabledFor(lg, level)
    THEN LET p == process(extra, msg, kwargs, addr)
         IN  Logger_log(lg, hs, level, p.msg, p.kwargs, exc)
    ELSE Nothing

\* ContextAdapter.exception, then LoggerAdapter.exception
ContextAdapter_exception(lg, hs, extra, msg, kwargs, exc, addr) ==
    LoggerAdapter_log(lg, hs, extra, ERROR, msg, FlagException(kwargs), exc, addr)

\* a call of `method` on the shared logger (via = "logger") or on an adapter of it
LogCall(via, lg, hs, extra, method, msg, kwargs, exc, addr) ==
    IF via = "logger" THEN
        IF method = "exception" THEN CustomLogger_exception(lg, hs, msg, kwargs, exc)
        ELSE Logger_log(lg, hs, LevelOf(method), msg, kwargs, exc)
    ELSE
        IF method = "exception"
        THEN ContextAdapter_exception(lg, hs, extra, msg, kwargs, exc, addr)
        ELSE LoggerAdapter_log(lg, hs, extra, LevelOf(method), msg, kwargs, exc, addr)

(***************************************************************************)
(* lib/BorgLogger.py: BorgLogger.                                          *)
(*                                                                         *)
(* A config argument is [isDict, items]: items are the mapping's           *)
(* [key, value] pairs in its order.  Each thread runs one call at a time;  *)
(* frames[t].pc names the statement it executes next, and a step of the    *)
(* model is one statement (or one run of statements that touch only        *)
(* locals and fresh objects), so that the threads interleave between the   *)
(* reads and the writes of _shared_state as the interpreter lets them.     *)
(* The merge loop of __new__ is taken as one step.                         *)
(***************************************************************************)
NoConfig == [isDict |-> FALSE, items |-> <<>>]
DictConfig(items) == [isDict |-> TRUE, items |-> items]

IdleFrame ==
    [ pc |-> "idle", op |-> "", config |-> NoConfig, extra |-> NoContext,
      root_level |-> None, file_handler |-> 0, console_handler |-> 0 ]

NoResult == [kind |-> "none", logger |-> None, extra |-> NoContext, raised |-> ""]
Raised(e) == [kind |-> "raised", logger |-> None, extra |-> NoContext, raised |-> e]

CallRecord(t, op, config, extra, method) ==
    [thread |-> t, op |-> op, config |-> config, extra |-> extra, method |-> method]

\* the directories that exist: config.py creates LOG_PATH when it is imported
ExistingDirs == {LOG_PATH, "/tmp"}

\* __new__ without the merge of the overrides
Merge_Ignored(state, items) == state

\* for key, value in config.items(): if key in cls._shared_state: ... = value
RECURSIVE Merge(_, _)
Merge(state, items) ==
    IF items = <<>> THEN state
    ELSE LET kv == Head(items)
         IN  Merge(IF kv.key \in DOMAIN state THEN [state EXCEPT ![kv.key] = kv.value]
                   ELSE state,
                   Tail(items))

\* Handler.setLevel and Logger.setLevel store the numeric level
setLevel(level) == _checkLevel(level).rv

\* the handler list after addHandler(console_handler); addHandler(file_handler)
AttachedHandlers(console_handler, file_handler) == <<console_handler, file_handler>>

\* an acquisition that configures the logger whether or not one exists
AfterCheck_AlwaysConfigure(state, ret_pc) == "config_checkLevel"

\* where a call goes after `if not cls._shared_state["main_logger"]`
AfterCheck(state, ret_pc) ==
    IF ~Truthy(state["main_logger"]) THEN "config_checkLevel" ELSE ret_pc

\* BorgLogger.__new__, the merge of the overrides
new_merge(t, config) ==
    /\ frames[t].pc = "idle"
    /\ Len(calls) < MaxCalls
    /\ shared' = IF config.isDict THEN Merge(shared, config.items) ELSE shared
    /\ frames' = [frames EXCEPT ![t] =
                    [IdleFrame EXCEPT !.pc = "new_check", !.op = "new", !.config = config]]
    /\ calls' = Append(calls, CallRecord(t, "new", config, NoContext, ""))
    /\ UNCHANGED <<loggers, handlers, ret, inp, out, applied>>

\* BorgLogger.__new__, the test of main_logger
new_check(t) ==
    /\ frames[t].pc = "new_check"
    /\ frames' = [frames EXCEPT ![t].pc = AfterCheck(shared, "new_return")]
    /\ UNCHANGED <<shared, loggers, handlers, ret, calls, inp, out, applied>>

\* BorgLogger.__new__, return cls
new_return(t) ==
    /\ frames[t].pc = "new_return"
    /\ ret' = [ret EXCEPT ![t] = [NoResult EXCEPT !.kind = "cls"]]
    /\ frames' = [frames EXCEPT ![t] = IdleFrame]
    /\ UNCHANGED <<shared, loggers, handlers, calls, inp, out, applied>>

\* BorgLogger.get_logger, the test of main_logger
get_logger_check(t) ==
    /\ frames[t].pc = "idle"
    /\ Len(calls) < MaxCalls
    /\ frames' = [frames EXCEPT ![t] =
                    [IdleFrame EXCEPT !.pc = AfterCheck(shared, "get_logger_return"),
                                      !.op = "get_logger"]]
    /\ calls' = Append(calls, CallRecord(t, "get_logger", NoConfig, NoContext, ""))
    /\ UNCHANGED <<shared, loggers, handlers, ret, inp, out, applied>>

\* BorgLogger.get_logger, return cls._shared_state["main_logger"]
get_logger_return(t) ==
    /\ frames[t].pc = "get_logger_return"
    /\ ret' = [ret EXCEPT ![t] =
                 [NoResult EXCEPT !.kind = "logger", !.logger = shared["main_logger"]]]
    /\ frames' = [frames EXCEPT ![t] = IdleFrame]
    /\ UNCHANGED <<shared, loggers, handlers, calls, inp, out, applied>>

\* BorgLogger.get_adapter, the test of main_logger
get_adapter_check(t, context_info) ==
    /\ frames[t].pc = "idle"
    /\ Len(calls) < MaxCalls
    /\ frames' = [frames EXCEPT ![t] =
                    [IdleFrame EXCEPT !.pc = AfterCheck(shared, "get_adapter_return"),
                                      !.op = "get_adapter", !.extra = context_info]]
    /\ calls' = Append(calls, CallRecord(t, "get_adapter", NoConfig, context_info, ""))
    /\ UNCHANGED <<shared, loggers, handlers, ret, inp, out, applied>>

\* BorgLogger.get_adapter, return ContextAdapter(main_logger, context_info)
get_adapter_return(t) ==
    /\ frames[t].pc = "get_adapter_return"
    /\ ret' = [ret EXCEPT ![t] =
                 [NoResult EXCEPT !.kind = "adapter", !.logger = shared["main_logger"],
                                  !.extra = frames[t].extra]]
    /\ frames' = [frames EXCEPT ![t] = IdleFrame]
    /\ UNCHANGED <<shared, loggers, handlers, calls, inp, out, applied>>

\* _config_logger: root_level = ...; logging._checkLevel(root_level)
config_checkLevel(t) ==
    /\ frames[t].pc = "config_checkLevel"
    /\ LET root_level == shared["root_level"]
           checked == _checkLevel(root_level)
       IN  IF checked.raised # ""
           THEN /\ ret' = [ret EXCEPT ![t] = Raised(checked.raised)]
                /\ frames' = [frames EXCEPT ![t] = IdleFrame]
           ELSE /\ frames' = [frames EXCEPT ![t].pc = "config_handlers",
                                            ![t].root_level = root_level]
                /\ ret' = ret
    /\ UNCHANGED <<shared, loggers, handlers, calls, inp, out, applied>>

\* _config_logger: the file handler, then the console handler, each set to root_level
config_handlers(t) ==
    /\ frames[t].pc = "config_handlers"
    /\ LET log_file_path == shared["log_file_path"].str \o "/" \o shared["log_file_name"].str
           level == setLevel(frames[t].root_level)
           file_handler == [kind |-> "file", level |-> level, target |-> log_file_path]
           console_handler == [kind |-> "console", level |-> level, target |-> "stderr"]
       IN  IF shared["log_file_path"].str \notin ExistingDirs
           THEN \* logging.FileHandler opens the file
                /\ ret' = [ret EXCEPT ![t] = Raised("FileNotFoundError")]
                /\ frames' = [frames EXCEPT ![t] = IdleFrame]
                /\ handlers' = handlers
           ELSE /\ handlers' = handlers \o <<file_handler, console_handler>>
                /\ frames' = [frames EXCEPT ![t].pc = "config_main_logger",
                                            ![t].file_handler = Len(handlers) + 1,
                                            ![t].console_handler = Len(handlers) + 2]
                /\ ret' = ret
    /\ UNCHANGED <<shared, loggers, calls, inp, out, applied>>

\* _config_logger: the CustomLogger, its handlers and level, and its publication
config_main_logger(t) ==
    /\ frames[t].pc = "config_main_logger"
    /\ LET main_logger ==
               [ name |-> shared["name"],
                 level |-> setLevel(frames[t].root_level),
                 handlers |-> AttachedHandlers(frames[t].console_handler,
                                               frames[t].file_handler) ]
       IN  /\ loggers' = Append(loggers, main_logger)
           /\ shared' = [shared EXCEPT !["main_logger"] = RefV(Len(loggers) + 1)]
    /\ frames' = [frames EXCEPT ![t].pc = frames[t].op \o "_return"]
    /\ UNCHANGED <<handlers, ret, calls, inp, out, applied>>

_config_logger(t) ==
    \/ config_checkLevel(t)
    \/ config_handlers(t)
    \/ config_main_logger(t)

Methods == {"debug", "info", "warning", "error", "critical", "exception"}

\* the methods the threaded callers use
CallerMethods == {"debug", "exception"}

\* the addresses a generator object may get
Addresses == {"7f3a1c2b4e40", "7f3a1c2b4f2c"}

\* a logging call on what the thread's last acquisition returned
Log(t, method) ==
    /\ frames[t].pc = "idle"
    /\ Len(calls) < MaxCalls
    /\ ret[t].kind \in {"logger", "adapter"}
    /\ ret[t].logger.kind = "logger"
    /\ \E addr \in Addresses :
         LET lg == loggers[ret[t].logger.num]
             r == LogCall(ret[t].kind, lg, handlers, ret[t].extra, method,
                          inp.msg, inp.kwargs, inp.exc, addr)
         IN  out' = [ via |-> ret[t].kind, logger |-> ret[t].logger.num,
                      extra |-> ret[t].extra, method |-> method,
                      raised |-> r.raised, records |-> r.records, emits |-> r.emits ]
    /\ calls' = Append(calls, CallRecord(t, "log", NoConfig, ret[t].extra, method))
    /\ UNCHANGED <<shared, loggers, handlers, frames, ret, inp, applied>>

(***************************************************************************)
(* Direct applications of the pure functions to the caller's inputs.       *)
(***************************************************************************)
NotApplied == [fn |-> "none", raised |-> "", msg |-> "", kwargs |-> {}, text |-> ""]

ApplyProcess ==
    /\ \E addr \in Addresses :
         LET p == process(inp.extra, inp.msg, inp.kwargs, addr)
         IN  applied' = [ fn |-> "process", raised |-> "", msg |-> p.msg,
                          kwargs |-> {p.kwargs}, text |-> "" ]
    /\ UNCHANGED <<shared, loggers, handlers, frames, ret, calls, inp, out>>

ApplyDetailedException ==
    /\ LET d == detailed_exception(inp.exc)
       IN  applied' = [ fn |-> "detailed_exception", raised |-> d.raised, msg |-> "",
                        kwargs |-> {}, text |-> d.rv ]
    /\ UNCHANGED <<shared, loggers, handlers, frames, ret, calls, inp, out>>

(***************************************************************************)
(* config.py: the command-line arguments.                                  *)
(*                                                                         *)
(* sys.argv is a sequence of strings, the program's name first.  A call    *)
(* yields [raised, rv]: the exception it ends with (if any) and the        *)
(* Python value it returns.                                                *)
(***************************************************************************)
DecimalDigits == "0123456789"

\* the value of a decimal digit, or -1 for any other character
DigitOf(ch) == Find(DecimalDigits, ch, 1) - 1

IsSpace(ch) == ch \in {" ", "\t", "\n"}

\* s.strip()
RECURSIVE Strip(_)
Strip(s) ==
    IF s = "" THEN s
    ELSE IF IsSpace(SubSeq(s, 1, 1)) THEN Strip(SubSeq(s, 2, Len(s)))
    ELSE IF IsSpace(SubSeq(s, Len(s), Len(s))) THEN Strip(SubSeq(s, 1, Len(s) - 1))
    ELSE s

\* the value of the digits s[i..], single underscores allowed between digits,
\* added to acc * 10^k; -1 when s is no such literal
RECURSIVE DigitsValue(_, _, _)
DigitsValue(s, i, acc) ==
    IF i > Len(s) THEN acc
    ELSE LET ch == SubSeq(s, i, i)
         IN  IF ch = "_"
             THEN IF i = 1 \/ i = Len(s) \/ SubSeq(s, i + 1, i + 1) = "_"
                  THEN -1
                  ELSE DigitsValue(s, i + 1, acc)
             ELSE IF DigitOf(ch) < 0 THEN -1
             ELSE DigitsValue(s, i + 1, acc * 10 + DigitOf(ch))

\* int(s) of a string, base 10
int(s) ==
    LET t == Strip(s)
        signed == t # "" /\ SubSeq(t, 1, 1) \in {"+", "-"}
        body == IF signed THEN SubSeq(t, 2, Len(t)) ELSE t
        v == IF body = "" THEN -1 ELSE DigitsValue(body, 1, 0)
    IN  IF v < 0 THEN [raised |-> "ValueError", rv |-> None]
        ELSE [raised |-> "", rv |-> IntV(IF signed /\ SubSeq(t, 1, 1) = "-" THEN 0 - v ELSE v)]

\* arg in argv
Contains(argv, arg) == \E i \in 1..Len(argv) : argv[i] = arg

\* argv.index(arg), one-based, for an arg that argv contains
IndexOf(argv, arg) == CHOOSE i \in 1..Len(argv) :
    argv[i] = arg /\ \A j \in 1..(i - 1) : argv[j] # arg

read_next_argument(argv, arg) ==
    IF ~Contains(argv, arg) THEN [raised |-> "", rv |-> None]
    ELSE LET next == IndexOf(argv, arg) + 1
         IN  IF next > Len(argv)
             THEN \* IndexError, caught
                  [raised |-> "", rv |-> None]
             ELSE \* the ValueError of int() is not caught
                  int(argv[next])

\* x or y
Or(x, y) == IF Truthy(x) THEN x ELSE y

DefaultSomeNumber == 10

\* the module body of config.py up to CONFIG: [raised, CONFIG]
CONFIG(argv) ==
    LET param == read_next_argument(argv, "--somenumber")
    IN  IF param.raised # ""
        THEN [raised |-> param.raised, loaded |-> FALSE, LOG_LEVEL |-> 0,
              BOOLEAN_EXAMPLE |-> FALSE, SOME_CMD_ARG_WITH_PARAM |-> None]
        ELSE [raised |-> "", loaded |-> TRUE, LOG_LEVEL |-> LOG_LEVEL(Contains(argv, "-d")),
              BOOLEAN_EXAMPLE |-> Contains(argv, "-b"),
              SOME_CMD_ARG_WITH_PARAM |-> Or(param.rv, IntV(DefaultSomeNumber))]

\* _shared_state before lib/BorgLogger.py has been imported
NotImported ==
    [ name |-> None, main_logger |-> None, root_level |-> None,
      log_file_path |-> None, log_file_name |-> None ]

\* a direct call of read_next_argument
ApplyReadNextArgument ==
    /\ \E arg \in {"--somenumber", "-d"} :
         LET r == read_next_argument(inp.argv, arg)
         IN  applied' = [fn |-> "read_next_argument", arg |-> arg, raised |-> r.raised,
                         rv |-> r.rv]
    /\ UNCHANGED <<shared, loggers, handlers, frames, ret, calls, inp, out>>

\* `from config import CONFIG, ROOT_DIR` and, when it returns, the class body of
\* BorgLogger
ImportConfig ==
    /\ shared = NotImported
    /\ LET c == CONFIG(inp.argv)
       IN  /\ applied' = [ fn |-> "config", raised |-> c.raised, loaded |-> c.loaded,
                           LOG_LEVEL |-> c.LOG_LEVEL, BOOLEAN_EXAMPLE |-> c.BOOLEAN_EXAMPLE,
                           SOME_CMD_ARG_WITH_PARAM |-> c.SOME_CMD_ARG_WITH_PARAM ]
           /\ shared' = IF c.loaded THEN InitialSharedState(Contains(inp.argv, "-d"))
                        ELSE shared
    /\ UNCHANGED <<loggers, handlers, frames, ret, calls, inp, out>>

(***************************************************************************)
(* Inputs.                                                                 *)
(***************************************************************************)
KV(k, v) == [key |-> k, value |-> v]

\* the mappings passed to BorgLogger(config), and a config that is no mapping
Configs ==
    { NoConfig,
      DictConfig(<<KV("root_level", StrV("verbose"))>>),
      DictConfig(<<KV("name", StrV("audit")), KV("log_file_path", StrV("/tmp")),
                   KV("log_file_name", StrV("audit.log")), KV("root_level", IntV(ERROR)),
                   KV("colour", StrV("red"))>>),
      DictConfig(<<KV("log_file_path", StrV("/missing"))>>),
      DictConfig(<<KV("main_logger", None)>>) }

ZeroDivisionError ==
    [ module |-> "builtins", qualname |-> "ZeroDivisionError",
      doc |-> "Second argument to a division or modulo operation was zero." ]
ValueError ==
    [ module |-> "builtins", qualname |-> "ValueError",
      doc |-> "Inappropriate argument value (of correct type)." ]
\* a class of the project, without a docstring
AppError == [module |-> "lib.errors", qualname |-> "AppError", doc |-> ""]

TbEntry(file, lineno) == [file |-> file, lineno |-> lineno]
Caught(type, text, tb) == [active |-> TRUE, type |-> type, text |-> text, tb |-> tb]

ExampleFile == ROOT_DIR \o <<"examples", "example.py">>
HelperFile == ROOT_DIR \o <<"lib", "helper.py">>
OutsideFile == <<"/", "opt", "tools", "run.py">>
StdlibFile == <<"/", "usr", "lib", "python3", "json", "decoder.py">>

\* exception contexts: raised in the handling frame itself, or one call below it
ExceptionContexts ==
    { Caught(ZeroDivisionError, "division by zero", <<TbEntry(ExampleFile, 105)>>),
      Caught(ZeroDivisionError, "division by zero", <<TbEntry(OutsideFile, 12)>>),
      Caught(AppError, "bad input", <<TbEntry(ExampleFile, 131), TbEntry(HelperFile, 7)>>),
      Caught(ValueError, "Expecting value",
             <<TbEntry(ExampleFile, 40), TbEntry(StdlibFile, 355)>>),
      Caught(ZeroDivisionError, "division by zero",
             <<TbEntry(HelperFile, 21), TbEntry(HelperFile, 9)>>) }

Contexts ==
    { NoContext,
      StrContext("worker"),
      DictContext(<<KV("req", "42")>>),
      DictContext(<<KV("req", "42"), KV("user", "ann")>>),
      ListContext(<<KV("", "a"), KV("", "b")>>) }

KwargsInputs ==
    [exc_info : BOOLEAN, hasExtra : {FALSE}, extra : {{}}]
        \cup [exc_info : BOOLEAN, hasExtra : {TRUE}, extra : {{"user"}}]

RootLevels ==
    { IntV(0), IntV(DEBUG), StrV("INFO"), IntV(ERROR), IntV(45), StrV("CRITICAL"), None }

\* the inputs of the concurrent and the sequential specification
DefaultInputs ==
    [ root_level : {IntV(DEBUG)}, extra : {StrContext("worker")}, msg : {"hello"},
      kwargs : {[exc_info |-> TRUE, hasExtra |-> FALSE, extra |-> {}]},
      exc : {Caught(ZeroDivisionError, "division by zero", <<TbEntry(ExampleFile, 105)>>)} ]

\* the inputs of the logging specification
LogInputs ==
    [ root_level : RootLevels, extra : Contexts \ {ListContext(<<KV("", "a"), KV("", "b")>>)},
      msg : {"hello"},
      kwargs : { [exc_info |-> TRUE, hasExtra |-> FALSE, extra |-> {}],
                 [exc_info |-> FALSE, hasExtra |-> TRUE, extra |-> {"user"}] },
      exc : { NoException,
              Caught(ZeroDivisionError, "division by zero", <<TbEntry(ExampleFile, 105)>>),
              Caught(AppError, "bad input",
                     <<TbEntry(ExampleFile, 131), TbEntry(HelperFile, 7)>>) } ]

\* the inputs of the pure-function specification
AllInputs ==
    [ root_level : RootLevels, extra : Contexts, msg : {"hello", "done]"},
      kwargs : KwargsInputs, exc : ExceptionContexts \cup {NoException} ]

\* what a command line is made of
ArgTokens == {"--somenumber", "15", "0", "-7", "1_0", "abc", "-d"}

\* sys.argv: the program's name, then up to MaxArgs arguments
Argvs ==
    { <<"main.py">> \o rest : rest \in UNION {[1..n -> ArgTokens] : n \in 0..MaxArgs} }

\* the inputs of the command-line specification
ArgvInputs == [argv : Argvs]

(***************************************************************************)
(* Specifications.                                                         *)
(***************************************************************************)
NoOutput ==
    [ via |-> "none", logger |-> 0, extra |-> NoContext, method |-> "",
      raised |-> "", records |-> <<>>, emits |-> <<>> ]

\* the process after `from lib.BorgLogger import BorgLogger`
ImportedState(inputs) ==
    /\ \E dashD \in BOOLEAN : shared = InitialSharedState(dashD)
    /\ loggers = <<>>
    /\ handlers = <<>>
    /\ frames = [t \in Threads |-> IdleFrame]
    /\ ret = [t \in Threads |-> NoResult]
    /\ calls = <<>>
    /\ inp \in inputs
    /\ out = NoOutput
    /\ applied = NotApplied

Init == ImportedState(DefaultInputs)

\* the steps of thread t
Step(t) ==
    \/ \E config \in Configs : new_merge(t, config)
    \/ new_check(t)
    \/ new_return(t)
    \/ get_logger_check(t)
    \/ get_logger_return(t)
    \/ get_adapter_check(t, inp.extra)
    \/ get_adapter_return(t)
    \/ _config_logger(t)
    \/ \E method \in CallerMethods : Log(t, method)

\* threads calling concurrently: any thread may take its next step
Next == \E t \in Threads : Step(t)

Spec == Init /\ [][Next]_vars

\* callers calling one after another: a call starts only when no other is running
OthersIdle(t) == \A u \in Threads \ {t} : frames[u].pc = "idle"

SeqNext ==
    \E t \in Threads :
        \/ OthersIdle(t) /\ \E config \in Configs : new_merge(t, config)
        \/ new_check(t)
        \/ new_return(t)
        \/ OthersIdle(t) /\ get_logger_check(t)
        \/ get_logger_return(t)
        \/ OthersIdle(t) /\ get_adapter_check(t, inp.extra)
        \/ get_adapter_return(t)
        \/ _config_logger(t)
        \/ OthersIdle(t) /\ \E method \in CallerMethods : Log(t, method)

SpecSeq == Init /\ [][SeqNext]_vars

\* one caller that sets the level, acquires and logs, over all inputs
LogInit == ImportedState(LogInputs)

LogNext ==
    \/ new_merge(1, DictConfig(<<KV("root_level", inp.root_level)>>))
    \/ new_check(1)
    \/ new_return(1)
    \/ get_logger_check(1)
    \/ get_logger_return(1)
    \/ get_adapter_check(1, inp.extra)
    \/ get_adapter_return(1)
    \/ _config_logger(1)
    \/ \E method \in Methods : Log(1, method)

SpecLog == LogInit /\ [][LogNext]_vars

\* the pure functions applied to all inputs
PureNext == ApplyProcess \/ ApplyDetailedException

PureInit == ImportedState(AllInputs)

SpecPure == PureInit /\ [][PureNext]_vars

\* the process started with a command line, nothing of the project imported yet
ArgvInit ==
    /\ shared = NotImported
    /\ loggers = <<>>
    /\ handlers = <<>>
    /\ frames = [t \in Threads |-> IdleFrame]
    /\ ret = [t \in Threads |-> NoResult]
    /\ calls = <<>>
    /\ inp \in ArgvInputs
    /\ out = NoOutput
    /\ applied = NotApplied

ArgvNext == ApplyReadNextArgument \/ ImportConfig

SpecArgv == ArgvInit /\ [][ArgvNext]_vars

(***************************************************************************)
(* Properties.                                                             *)
(***************************************************************************)
SharedKeys == {"name", "main_logger", "root_level", "log_file_path", "log_file_name"}

AllIdle == \A t \in Threads : frames[t].pc = "idle"

\* the threads whose last call returned the logger or an adapter of it
Acquired == {t \in Threads : ret[t].kind \in {"logger", "adapter"}}

HasKey(config, k) == \E i \in 1..Len(config.items) : config.items[i].key = k

ValueOf(config, k) ==
    config.items[CHOOSE i \in 1..Len(config.items) : config.items[i].key = k].value

\* a configure call that overrides a key of the shared state
IsOverride(config) == config.isDict /\ \E k \in SharedKeys : HasKey(config, k)

\* the levels the logging module accepts, and their numeric values
ValidLevelNames == {"CRITICAL", "FATAL", "ERROR", "WARN", "WARNING", "INFO", "DEBUG", "NOTSET"}

IsValidLevel(v) == v.kind = "int" \/ (v.kind = "str" /\ v.str \in ValidLevelNames)

NumericLevel(v) ==
    IF v.kind = "int" THEN v.num
    ELSE CASE v.str = "DEBUG" -> 10
           [] v.str = "INFO" -> 20
           [] v.str \in {"WARN", "WARNING"} -> 30
           [] v.str = "ERROR" -> 40
           [] v.str \in {"CRITICAL", "FATAL"} -> 50
           [] OTHER -> 0

\* one console handler and one file handler, attached to logger lg
HasOneHandlerPair(lg) ==
    /\ Len(lg.handlers) = 2
    /\ {handlers[lg.handlers[i]].kind : i \in 1..2} = {"console", "file"}

\* how many times handler h emitted in the last logging call
TimesEmitted(h) == Cardinality({i \in 1..Len(out.emits) : out.emits[i].handler = h})

\* every call so far is a first-time acquisition: no override has been merged
OnlyFirstTimeAcquisitions ==
    \A i \in 1..Len(calls) :
        \/ calls[i].op \in {"get_logger", "get_adapter"}
        \/ calls[i].op = "new" /\ ~IsOverride(calls[i].config)

\* C1: when the calls made so far are K >= 2 first-time acquisitions (get_logger,
\* get_adapter, BorgLogger(config) without overrides) made concurrently, exactly one
\* construction runs under every interleaving: at most one logger and one handler
\* pair are ever created, and all callers are bound to the same logger instance.
C1_ExactlyOneConstruction ==
    OnlyFirstTimeAcquisitions =>
        /\ Len(loggers) <= 1
        /\ Len(handlers) <= 2
        /\ \A t, u \in Acquired : ret[t].logger = ret[u].logger

\* every call so far is get_logger, get_adapter or a logging call
OnlyAcquisitionsAndLogs ==
    \A i \in 1..Len(calls) : calls[i].op \in {"get_logger", "get_adapter", "log"}

\* C2: after any sequence of N >= 1 calls of get_logger / get_adapter made one after
\* another, one construction has run (one logger, one console and one file handler),
\* every call returned or wrapped that logger, and a message logged afterwards is
\* emitted once by each handler whose level admits it and never twice.
C2_AcquisitionIdempotent ==
    (OnlyAcquisitionsAndLogs /\ AllIdle /\ Len(calls) >= 1) =>
        /\ Len(loggers) = 1
        /\ Len(handlers) = 2
        /\ HasOneHandlerPair(loggers[1])
        /\ shared["main_logger"] = RefV(1)
        /\ \A t \in Acquired : ret[t].logger = RefV(1)
        /\ (out.via # "none" /\ out.raised = "") =>
              /\ Len(out.records) <= 1
              /\ \A i \in 1..2 :
                    LET h == loggers[1].handlers[i]
                    IN  TimesEmitted(h) =
                            IF LevelOf(out.method) >= handlers[h].level THEN 1 ELSE 0

C2_Witness ==
    /\ OnlyAcquisitionsAndLogs /\ AllIdle
    /\ Len(calls) >= 3
    /\ calls[1].op = "get_logger" /\ calls[2].op = "get_adapter" /\ calls[3].op = "log"
    /\ Len(out.emits) = 2

\* C3: once the shared logger has been constructed, no step of a configure call
\* BorgLogger(overrides) changes the logger held in the shared state, creates a logger
\* or a handler, or changes an existing one.
C3_ConfigureAfterConstructionHasNoEffect ==
    [][ (Len(loggers) >= 1 /\ \E t \in Threads : frames[t].op = "new" \/ frames'[t].op = "new")
          => /\ shared'["main_logger"] = shared["main_logger"]
             /\ loggers' = loggers
             /\ handlers' = handlers ]_vars

\* C4: when BorgLogger(overrides) constructs the first logger, that logger has the
\* overridden name, its level and the levels of both its handlers are the overridden
\* root_level, its file handler writes to the overridden log_file_path /
\* log_file_name, and keys that are no shared-state keys have added nothing.
C4_OverridesBeforeConstructionTakeEffect ==
    \A t \in Threads :
        ( /\ frames[t].op = "new" /\ frames[t].pc = "new_return"
          /\ frames[t].config.isDict
          /\ frames[t].console_handler # 0
          /\ Len(loggers) = 1 ) =>
            LET c == frames[t].config
                lg == loggers[1]
                fh == handlers[frames[t].file_handler]
                ch == handlers[frames[t].console_handler]
            IN  /\ shared["main_logger"] = RefV(1)
                /\ lg.handlers = <<frames[t].console_handler, frames[t].file_handler>>
                /\ fh.kind = "file" /\ ch.kind = "console"
                /\ HasKey(c, "name") => lg.name = ValueOf(c, "name")
                /\ HasKey(c, "root_level") =>
                      LET L == NumericLevel(ValueOf(c, "root_level"))
                      IN  lg.level = L /\ fh.level = L /\ ch.level = L
                /\ HasKey(c, "log_file_path") =>
                      fh.target = ValueOf(c, "log_file_path").str \o "/"
                                    \o shared["log_file_name"].str
                /\ HasKey(c, "log_file_name") =>
                      fh.target = shared["log_file_path"].str \o "/"
                                    \o ValueOf(c, "log_file_name").str
                /\ DOMAIN shared = SharedKeys

C4_Witness ==
    \E t \in Threads :
        /\ frames[t].op = "new" /\ frames[t].pc = "new_return"
        /\ frames[t].console_handler # 0
        /\ HasKey(frames[t].config, "name") /\ HasKey(frames[t].config, "colour")
        /\ Len(loggers) = 1
        /\ loggers[1].name = StrV("audit")
        /\ loggers[1].level = ERROR
        /\ handlers[frames[t].file_handler].target = "/tmp/audit.log"

\* C5: a construction that finds an invalid root_level raises at once: the step
\* creates no handler and no logger, leaves the shared state (and so an absent
\* main_logger) as it was, and ends the call with the error, and it does so every
\* time the level is invalid.
C5_InvalidLevelFailsFast ==
    [][ \A t \in Threads :
          ( /\ frames[t].pc = "config_checkLevel"
            /\ frames'[t] # frames[t]
            /\ ~IsValidLevel(shared["root_level"]) )
          => /\ ret'[t].kind = "raised"
             /\ ret'[t].raised \in {"ValueError", "TypeError"}
             /\ frames'[t] = IdleFrame
             /\ frames[t].file_handler = 0 /\ frames[t].console_handler = 0
             /\ handlers' = handlers
             /\ loggers' = loggers
             /\ shared' = shared ]_vars

C5_Witness ==
    \E t \in Threads :
        /\ AllIdle
        /\ ret[t].kind = "raised" /\ ret[t].raised = "ValueError"
        /\ ~IsValidLevel(shared["root_level"])
        /\ ~Truthy(shared["main_logger"])
        /\ loggers = <<>> /\ handlers = <<>>
        /\ Len(calls) >= 2
        /\ calls[Len(calls)].op \in {"get_logger", "get_adapter"}

\* the numeric level of a logging method's messages
MessageLevel(method) ==
    CASE method = "debug" -> 10
      [] method = "info" -> 20
      [] method = "warning" -> 30
      [] method \in {"error", "exception"} -> 40
      [] OTHER -> 50

\* C6: a logger constructed with the valid root_level L passes a message of level M to
\* its console and to its file handler iff M >= L; so a DEBUG message is observed
\* iff L <= DEBUG.  L is the level BorgLogger({"root_level": L}) set before the
\* construction, or LOG_LEVEL when the first call was an acquisition.
C6_LevelThreshold ==
    (out.via # "none" /\ out.raised = "") =>
        LET lg == loggers[out.logger]
            M == MessageLevel(out.method)
            L == IF calls[1].op = "new" THEN NumericLevel(inp.root_level) ELSE lg.level
        IN  /\ calls[1].op = "new" => IsValidLevel(inp.root_level)
            /\ calls[1].op # "new" => lg.level \in {10, 20}
            /\ lg.level = L
            /\ HasOneHandlerPair(lg)
            /\ \A i \in 1..Len(lg.handlers) :
                  TimesEmitted(lg.handlers[i]) = IF M >= L THEN 1 ELSE 0
            /\ \A i \in 1..Len(out.emits) : out.emits[i].levelno = M

C6_Witness ==
    /\ out.via = "adapter" /\ out.method = "debug"
    /\ calls[1].op = "new" /\ inp.root_level = IntV(10)
    /\ loggers[out.logger].level = 10
    /\ Len(out.emits) = 2

\* "k1: v1, ..., kn: vn" of a mapping's items
RECURSIVE RenderPairs(_)
RenderPairs(items) ==
    IF items = <<>> THEN ""
    ELSE Head(items).key \o ": " \o Head(items).value
         \o (IF Len(items) > 1 THEN ", " ELSE "") \o RenderPairs(Tail(items))

\* C7: for a mapping context with entries (k1,v1),...,(kn,vn), process(msg) returns
\* "[k1: v1, ..., kn: vn] msg".
C7_MappingContextRendered ==
    (applied.fn = "process" /\ inp.extra.kind = "dict") =>
        applied.msg = "[" \o RenderPairs(inp.extra.items) \o "] " \o inp.msg

ContextPrefix(via, extra) ==
    IF via # "adapter" THEN ""
    ELSE CASE extra.kind = "dict" -> "[" \o RenderPairs(extra.items) \o "] "
           [] extra.kind = "str" -> "[" \o extra.text \o "] "
           [] OTHER -> ""

EndsWith(s, suffix) ==
    Len(s) >= Len(suffix) /\ SubSeq(s, Len(s) - Len(suffix) + 1, Len(s)) = suffix

\* C9: exception(msg, exc_info=flag), called inside an exception handler on the shared
\* logger or an adapter whose level admits ERROR, creates exactly one ERROR record
\* whose message is the (context-prefixed) message followed once by
\* " [<exception detail>]" and which carries the flag; a debug/info/warning/error
\* call is not augmented.
C9_ExceptionAugmentedOnce ==
    ( /\ out.via # "none"
      /\ inp.exc.active
      /\ MessageLevel(out.method) >= loggers[out.logger].level ) =>
        LET detail == " [" \o detailed_exception(inp.exc).rv \o "]"
        IN  /\ out.raised = ""
            /\ Len(out.records) = 1
            /\ out.records[1].levelno = MessageLevel(out.method)
            /\ out.records[1].exc_info = inp.kwargs.exc_info
            /\ IF out.method = "exception"
               THEN out.records[1].msg = ContextPrefix(out.via, out.extra) \o inp.msg \o detail
               ELSE ~EndsWith(out.records[1].msg, detail)

\* the same with a mapping context left aside
ExceptionAugmentedOnce_OtherContexts ==
    out.extra.kind # "dict" => C9_ExceptionAugmentedOnce

\* a file as the formatter shows it
RenderFile(parts) ==
    IF IsRelativeTo(parts, ROOT_DIR)
    THEN parts[Len(parts) - 1] \o "/" \o parts[Len(parts)]
    ELSE PathStr(parts)

\* the name of a type: bare for a builtin, with its module otherwise
TypeName(type) ==
    IF type.module = "builtins" THEN type.qualname ELSE type.module \o "." \o type.qualname

\* the traceback entry of the frame that raised
RaisedAt(exc) == exc.tb[Len(exc.tb)]

\* C10: for a caught exception raised on line N of file F, at any traceback depth,
\* detailed_exception returns
\* "Exception in <file>:<N> - <type name> - <exception text> - <type docstring>",
\* <file> being "<parent-folder>/<filename>" of F under the project root and F's
\* absolute path otherwise.
C10_DetailNamesRaisingLine ==
    (applied.fn = "detailed_exception" /\ inp.exc.active) =>
        /\ applied.raised = ""
        /\ applied.text = "Exception in " \o RenderFile(RaisedAt(inp.exc).file) \o ":"
                            \o ToString(RaisedAt(inp.exc).lineno) \o " - "
                            \o TypeName(inp.exc.type) \o " - " \o inp.exc.text \o " - "
                            \o DocStr(inp.exc.type.doc)

\* the same for an exception raised in the frame that handles it
DetailNamesRaisingLine_DepthOne ==
    Len(inp.exc.tb) = 1 => C10_DetailNamesRaisingLine

\* the handlers of the logger a call went to whose level admits `level`
AdmittingHandlers(lg, level) ==
    {lg.handlers[i] : i \in {j \in 1..Len(lg.handlers) : level >= handlers[lg.handlers[j]].level}}

\* C11: every exception-flagged log call (exception(msg) on the shared logger or an
\* adapter whose level admits ERROR) returns normally and its record is still
\* emitted: nothing is raised, one record is created, and every handler whose level
\* admits ERROR emits it once, whether or not an exception is being handled.
C11_FormattingNeverRaises ==
    ( /\ out.via # "none"
      /\ out.method = "exception"
      /\ ERROR >= loggers[out.logger].level ) =>
        /\ out.raised = ""
        /\ Len(out.records) = 1
        /\ \A h \in AdmittingHandlers(loggers[out.logger], ERROR) :
               TimesEmitted(h) = 1

\* the same for calls made while an exception is being handled
FormattingNeverRaises_InsideHandler ==
    inp.exc.active => C11_FormattingNeverRaises

\* whether "--somenumber" is present and an argument follows it
HasFollower(argv) ==
    Contains(argv, "--somenumber") /\ IndexOf(argv, "--somenumber") < Len(argv)

\* the argument after the first "--somenumber"
Follower(argv) == argv[IndexOf(argv, "--somenumber") + 1]

\* the value the parameter is to have for a command line
ExpectedSomeNumber(argv) ==
    IF HasFollower(argv) /\ int(Follower(argv)).raised = ""
    THEN int(Follower(argv)).rv
    ELSE IntV(DefaultSomeNumber)

\* C12: for every argv, importing config never raises and SOME_CMD_ARG_WITH_PARAM is
\* the integer following "--somenumber" when the flag is there with a valid integer
\* after it, and the default 10 when the flag is absent, is the last argument, or is
\* followed by a value that is no integer.
C12_SomeNumberDefault ==
    applied.fn = "config" =>
        /\ applied.raised = ""
        /\ applied.SOME_CMD_ARG_WITH_PARAM = ExpectedSomeNumber(inp.argv)

\* the same for a flag that is absent, last, or followed by an integer other than 0
SomeNumberDefault_NonZeroInteger ==
    ( \/ ~HasFollower(inp.argv)
      \/ /\ int(Follower(inp.argv)).raised = ""
         /\ int(Follower(inp.argv)).rv.num # 0 ) => C12_SomeNumberDefault

\* a faulty value after the flag ends the import with ValueError
SomeNumberFaulty_Raises ==
    ( /\ applied.fn = "config"
      /\ HasFollower(inp.argv)
      /\ int(Follower(inp.argv)).raised # "" ) => applied.raised = "ValueError"

====
